---- MODULE Spec2Model ----
(***************************************************************************)
(* The camera worker of byzanz-capture (src/camera_worker.py): the camera  *)
(* session state machine, the device event drain and the capture loop.     *)
(*                                                                         *)
(* The worker lives in one thread.  Commands reach it as queued signals    *)
(* (cmdQueue) and are run by the thread's event loop or by any             *)
(* QApplication.processEvents() call of a handler that is already running, *)
(* so that handlers nest: the worker is modelled by its call stack.        *)
(***************************************************************************)
EXTENDS Integers, Sequences, FiniteSets, TLC

\* ------------------------------------------------------------------ bounds
MaxImages == 2        \* largest num_images of a capture request
MaxBurstNumber == 2   \* largest max_burst of a capture request
MaxOps == 2           \* capture commands in one run
MaxEnv == 4           \* what the environment does in one run: commands of the user
                      \* interface, events the device raises on its own, failing
                      \* device calls, the interruption request

\* ------------------------------------------------------ values of the code
CaptureFormats == {"jpeg", "jpeg_and_raw"}

\* CaptureImagesRequest.__init__: expect_files from the image quality
ExpectFiles(image_quality) == IF image_quality = "jpeg_and_raw" THEN 2 ELSE 1

Request(n, q, b, m) ==
    [num_images |-> n, image_quality |-> q, expect_files |-> ExpectFiles(q),
     max_burst |-> b, manual_trigger |-> m]

Requests ==
    {Request(n, q, b, m) : n \in 1..MaxImages, q \in CaptureFormats,
                           b \in 1..MaxBurstNumber, m \in BOOLEAN}

\* the requests of the runs with any device: one shot or the most shots, and a
\* burst size of one, which is of no effect there; manual: whether the run's
\* requests are manual_trigger requests
UserRequests(manual) ==
    {r \in Requests : /\ r.num_images \in {1, MaxImages}
                      /\ r.max_burst = 1 /\ r.manual_trigger = manual}

NoReq == Request(0, "jpeg", 0, FALSE)

\* the two profiles of src/profiles: use_burst() and manual_trigger()
Nikon == [name |-> "nikon", use_burst |-> TRUE]
Sony == [name |-> "sony", use_burst |-> FALSE]
Profiles == {Nikon, Sony}
NoProfile == [name |-> "none", use_burst |-> FALSE]

\* poll_config() of the profile is None
PollConfigIsNone(p) == p.name = "nikon"

\* CameraStates: one record shape for every state class
St(tag) ==
    [tag |-> tag, op |-> 0, num |-> 0, auto |-> FALSE, err |-> "none",
     camera_name |-> "none", success |-> FALSE]
CaptureInProgress(op, n) == [St("CaptureInProgress") EXCEPT !.op = op, !.num = n]
CaptureFinished(op, n) == [St("CaptureFinished") EXCEPT !.op = op, !.num = n]
CaptureCanceled(op) == [St("CaptureCanceled") EXCEPT !.op = op]
CaptureErrorBare(op, msg) == [St("CaptureError") EXCEPT !.op = op]
CaptureError(op, msg) == [St("CaptureError") EXCEPT !.op = op, !.err = msg]
ConnectionError(msg) == [St("ConnectionError") EXCEPT !.err = msg]
Disconnected(camera_name, auto) ==
    [St("Disconnected") EXCEPT !.camera_name = camera_name, !.auto = auto]
FocusFinished(success) == [St("FocusFinished") EXCEPT !.success = success]

\* exceptions: gp.GPhoto2Error (with its string, and the PTP error that the log
\* callback __extract_gp2_error_from_log sees with it), and the Python errors
\* that no handler of the worker catches (AttributeError on self.camera = None,
\* IndexError)
Messages == {"E1"}
NoExc == [kind |-> "none", msg |-> "none", ptp |-> "none"]
Ok == [kind |-> "ok", msg |-> "none", ptp |-> "none"]
GpErr(m, ptp) == [kind |-> "gp", msg |-> m, ptp |-> ptp]
PyErr == [kind |-> "py", msg |-> "none", ptp |-> "none"]

\* the names and values of config widgets (src/profiles), and the dicts of
\* settings that __apply_settings takes
ConfigNames == {"capturetarget", "burstnumber", "viewfinder"}
ConfigValues == {0, 1}
ConfigOrder == <<"capturetarget", "burstnumber", "viewfinder">>
Settings == UNION {[S -> ConfigValues] : S \in SUBSET ConfigNames}

\* a config tree as camera.get_config() returns it, with the names that
\* __try_set_config logged as not supported; NoWidget is cfg = None
Widget(children) == [none |-> FALSE, children |-> children, errors |-> {}]
NoWidget == [none |-> TRUE, children |-> [n \in {} |-> 0], errors |-> {}]

\* what one config scope did: the function that opened it, its mode, its
\* input, the config of the device before, the result of get_config, the
\* trees handed to set_config, the exception the body ended with and the
\* exception that left the scope
Scope(kind, mode) ==
    [kind |-> kind, mode |-> mode, settings |-> [n \in {} |-> 0],
     before |-> [n \in {} |-> 0], got |-> NoExc, written |-> <<>>,
     body |-> NoExc, exc |-> NoExc]
NoScope == Scope("none", "none")

\* a device that the model of the worker does not look into
NoDevice == [config |-> [n \in {} |-> 0], refused |-> {}]

\* gp event types of wait_for_event that change the worker (GP_EVENT_UNKNOWN
\* only emits property_changed)
DeviceEvents == {"FileAdded", "CaptureComplete"}

\* CameraCommands
Cmd(kind) == [kind |-> kind, req |-> NoReq, profile |-> NoProfile]
CaptureCmd(r) == [Cmd("capture_images") EXCEPT !.req = r]
ConnectCmd(p) == [Cmd("connect_camera") EXCEPT !.profile = p]

\* one activation of a function of the worker on its call stack; inProgress
\* (not program state): the state was CaptureInProgress when the event ev arrived
Frame(h, pc) ==
    [h |-> h, pc |-> pc, op |-> 0, req |-> NoReq, remaining |-> 0, burst |-> 0,
     ev |-> "none", inProgress |-> FALSE, exc |-> NoExc]

\* the history of one capture operation (not program state): the last
\* num_captured it emitted in CaptureInProgress, the files it accepted, the
\* numbers it saved files under, the files it deleted, its triggers, the state it
\* ended with, and whether a cancel command ran during it
NewOp(r) ==
    [req |-> r, last |-> -1, accepted |-> 0, saved |-> <<>>, deleted |-> 0,
     triggers |-> 0, outcome |-> "none", cancelled |-> FALSE, live |-> TRUE]

\* when the operation has returned, only the state it ended with is kept
Retired(o) == [NewOp(NoReq) EXCEPT !.live = FALSE, !.outcome = o.outcome]

VARIABLES
    state,            \* self.__state, the last state emitted by state_changed
    emitted,          \* the tags of the states emitted by the last step, in order
    trace,            \* what the last step did, in order: the slot it called,
                      \* the states it emitted, the settings it applied to the
                      \* device, and the errors of the device that the autofocus met
    camera,           \* self.camera is not None
    filesCounter,     \* self.filesCounter
    captureComplete,  \* self.captureComplete
    shouldCancel,     \* self.shouldCancel
    profile,          \* self.profile
    camera_name,      \* self.camera_name: "none" or the name read from the config
    last_ptp_error,   \* self.__last_ptp_error: "none" or "OutOfFocus"
    interrupted,      \* self.thread().isInterruptionRequested()
    exitRequested,    \* self.thread().exit() was called
    cmdQueue,         \* queued command signals of the worker thread
    devQueue,         \* events the device holds for wait_for_event
    burstnumber,      \* the device's burst-count property
    exactDevice,      \* the device answers a trigger with exactly one burst
    stack,            \* call stack of the worker thread, innermost frame last
    raising,          \* the exception that is propagating, NoExc if none
    run,              \* "init", "run" or "crashed" (uncaught exception in a slot)
    uiProfile,        \* the profile the user interface connects with
    uiManual,         \* the user interface sends manual_trigger requests
    envCount,         \* what the environment has done so far (see MaxEnv)
    ops,              \* history of the capture operations, by operation number
    deviceConfig,     \* the device's config: the value of every widget of its
                      \* tree, and the widgets whose set_value raises
    scope,            \* the last config scope (__open_config), see Scope
    btQueue,          \* BtControllerController._queue: (response, param) pairs
    btTasks,          \* the _send_command tasks that schedule_command started
    btCount,          \* notifications of the LED controller so far
    btLink            \* the link to the LED controller: "connected" once
                      \* _connect has left its loop, "connecting" before

vars == <<state, emitted, trace, camera, filesCounter, captureComplete, shouldCancel, profile,
          camera_name, last_ptp_error,
          interrupted, exitRequested, cmdQueue, devQueue, burstnumber,
          exactDevice, stack, raising, run,
          uiProfile, uiManual, envCount, ops, deviceConfig, scope,
          btQueue, btTasks, btCount, btLink>>

\* the variables of the worker
workerVars ==
    <<state, emitted, trace, camera, filesCounter, captureComplete, shouldCancel,
      profile, camera_name, last_ptp_error, interrupted, exitRequested, cmdQueue,
      devQueue, burstnumber, exactDevice, stack, raising, run, uiProfile,
      uiManual, envCount, ops>>

\* the variables as one record, and the next state from such a record
Cur ==
    [state |-> state, emitted |-> <<>>, trace |-> <<>>, camera |-> camera, filesCounter |-> filesCounter,
     captureComplete |-> captureComplete, shouldCancel |-> shouldCancel,
     profile |-> profile, camera_name |-> camera_name,
     last_ptp_error |-> last_ptp_error, interrupted |-> interrupted,
     exitRequested |-> exitRequested, cmdQueue |-> cmdQueue, devQueue |-> devQueue,
     burstnumber |-> burstnumber, exactDevice |-> exactDevice,
     stack |-> stack, raising |-> raising, run |-> run, uiProfile |-> uiProfile,
     uiManual |-> uiManual,
     envCount |-> envCount, ops |-> ops]

Commit(w) ==
    /\ state' = w.state
    /\ emitted' = w.emitted
    /\ trace' = w.trace
    /\ camera' = w.camera
    /\ filesCounter' = w.filesCounter
    /\ captureComplete' = w.captureComplete
    /\ shouldCancel' = w.shouldCancel
    /\ profile' = w.profile
    /\ camera_name' = w.camera_name
    /\ last_ptp_error' = w.last_ptp_error
    /\ interrupted' = w.interrupted
    /\ exitRequested' = w.exitRequested
    /\ cmdQueue' = w.cmdQueue
    /\ devQueue' = w.devQueue
    /\ burstnumber' = w.burstnumber
    /\ exactDevice' = w.exactDevice
    /\ stack' = w.stack
    /\ raising' = w.raising
    /\ run' = w.run
    /\ uiProfile' = w.uiProfile
    /\ uiManual' = w.uiManual
    /\ envCount' = w.envCount
    /\ ops' = w.ops
    /\ UNCHANGED <<deviceConfig, scope, btQueue, btTasks, btCount, btLink>>

\* BtControllerController.__init__, with the link that the first _connect made
InitBtController ==
    /\ btQueue = <<>>
    /\ btTasks = <<>>
    /\ btCount = 0
    /\ btLink = "connected"

\* CameraWorker.__init__
InitWorker ==
    /\ state = St("None")
    /\ emitted = <<>>
    /\ trace = <<>>
    /\ camera = FALSE
    /\ filesCounter = 0
    /\ captureComplete = FALSE
    /\ shouldCancel = FALSE
    /\ profile = NoProfile
    /\ camera_name = "none"
    /\ last_ptp_error = "none"
    /\ interrupted = FALSE
    /\ exitRequested = FALSE
    /\ cmdQueue = <<>>
    /\ devQueue = <<>>
    /\ burstnumber = 1
    /\ stack = <<>>
    /\ raising = NoExc
    /\ run = "init"
    /\ envCount = 0
    /\ ops = <<>>
    /\ scope = NoScope

\* any device, either profile
Init ==
    /\ InitWorker
    /\ uiProfile \in Profiles
    /\ uiManual = FALSE
    /\ exactDevice = FALSE
    /\ deviceConfig = NoDevice
    /\ InitBtController

\* ---------------------------------------------------- the call stack
Top(w) == w.stack[Len(w.stack)]
WithTop(w, f) == [w EXCEPT !.stack = [w.stack EXCEPT ![Len(w.stack)] = f]]
Goto(w, pc) == WithTop(w, [Top(w) EXCEPT !.pc = pc])
Call(w, f) == [w EXCEPT !.stack = Append(w.stack, f)]
Ret(w) == [w EXCEPT !.stack = SubSeq(w.stack, 1, Len(w.stack) - 1)]

\* an exception that leaves a slot is not handled by anyone (sys.excepthook
\* is not installed, src/main.py 903-904): the process aborts
Crash(w) == [w EXCEPT !.run = "crashed", !.stack = <<>>, !.raising = NoExc]

\* ---------------------------------------------------- the device
\* what a call on self.camera can do: AttributeError without a camera,
\* else success or a GPhoto2Error
DevResults(w) ==
    IF ~w.camera THEN {PyErr}
    ELSE {Ok} \cup (IF ~w.exactDevice /\ w.envCount < MaxEnv
                    THEN {GpErr(m, "none") : m \in Messages} ELSE {})

Fail(w, r) ==
    [w EXCEPT !.raising = r, !.envCount = IF r.kind = "gp" THEN @ + 1 ELSE @]

\* what writing start_autofocus_settings (autofocusdrive) can do: as any device
\* call, or a GPhoto2Error that the log shows with the PTP code of
\* NikonPTPError.OutOfFocus
FocusResults(w) ==
    DevResults(w) \cup (IF w.camera /\ ~w.exactDevice /\ w.envCount < MaxEnv
                        THEN {GpErr(m, "OutOfFocus") : m \in Messages} ELSE {})

\* CameraWorker.__extract_gp2_error_from_log
ExtractGp2ErrorFromLog(w, r) ==
    IF r.ptp = "OutOfFocus" THEN [w EXCEPT !.last_ptp_error = r.ptp] ELSE w

\* ---------------------------------------------------- states
\* the history of a capture operation when state s is emitted for it
Track(o, s) ==
    CASE s.tag = "CaptureInProgress" -> [o EXCEPT !.last = s.num]
      [] s.tag = "CaptureFinished" -> [o EXCEPT !.outcome = "finished"]
      [] s.tag = "CaptureCanceled" -> [o EXCEPT !.outcome = "canceled"]
      [] s.tag = "CaptureError" -> [o EXCEPT !.outcome = "error"]
      [] OTHER -> o

\* a user interface that never searches again on its own
ReactionFoundOnly(w, s) ==
    IF s.tag = "Found" THEN <<ConnectCmd(w.uiProfile)>> ELSE <<>>

\* RTICaptureMainWindow.set_camera_state: the commands the user interface
\* answers a state with
Reaction(w, s) ==
    CASE s.tag = "Found" -> <<ConnectCmd(w.uiProfile)>>
      [] s.tag = "Disconnected" /\ s.auto -> <<Cmd("find_camera")>>
      [] OTHER -> <<>>

\* CameraWorker.__set_state
SetState(w, s) ==
    [w EXCEPT !.state = s,
              !.emitted = Append(@, s.tag),
              !.trace = Append(@, s),
              !.cmdQueue = @ \o Reaction(w, s),
              !.ops = IF s.op \in DOMAIN w.ops
                      THEN [@ EXCEPT ![s.op] = Track(@, s)] ELSE @]

\* CameraWorker.__apply_settings, when the device took the settings
ApplySettings(w, settings) ==
    [w EXCEPT !.trace = Append(@, [tag |-> "apply_settings", settings |-> settings])]

\* CameraWorker.__disconnect_camera: errors of camera.exit() are ignored
DisconnectCamera(w, auto_reconnect) ==
    LET w1 == SetState(w, St("Disconnecting"))
        w2 == SetState(w1, Disconnected(w.camera_name, auto_reconnect))
    IN [w2 EXCEPT !.camera = FALSE, !.camera_name = "none"]

\* a wrapper that reports the error and keeps the session
HandleCameraErrorKeepsSession(w, err) == SetState(w, ConnectionError(err.msg))

\* the wrapper __handle_camera_error: the except branch
HandleCameraError(w, err) ==
    DisconnectCamera(SetState(w, ConnectionError(err.msg)), TRUE)

\* a function under __handle_camera_error that made the device call with
\* result r, and does ok(w) when the call succeeded
Wrapped(w, r, done) ==
    CASE r.kind = "ok" -> done
      [] r.kind = "gp" -> HandleCameraError([w EXCEPT !.envCount = @ + 1], r)
      [] OTHER -> Fail(w, r)

\* a cancel that leaves the flag and the state alone
CancelUnflagged(w) ==
    [w EXCEPT !.ops = [i \in DOMAIN @ |->
                          IF @[i].live /\ @[i].last >= 0 /\ @[i].outcome = "none"
                          THEN [@[i] EXCEPT !.cancelled = TRUE] ELSE @[i]]]

\* CameraWorker.__cancel
Cancel(w) ==
    LET mark(o) == IF o.live /\ o.last >= 0 /\ o.outcome = "none"
                   THEN [o EXCEPT !.cancelled = TRUE] ELSE o
    IN SetState([w EXCEPT !.shouldCancel = TRUE,
                          !.ops = [i \in DOMAIN @ |-> mark(@[i])]],
                St("CaptureCancelling"))

\* CameraWorker.__start_live_view
StartLiveView(w, r) ==
    Wrapped(w, r, SetState(SetState(ApplySettings(w, "start_live_view_settings"),
                                    St("LiveViewStarted")),
                           St("LiveViewActive")))

\* a stop of the live view that does not look at the state
StopLiveViewUnguarded(w, r) ==
    Wrapped(w, r, SetState(SetState(ApplySettings(w, "stop_live_view_settings"),
                                    St("LiveViewStopped")),
                           St("Ready")))

\* CameraWorker.__stop_live_view
StopLiveView(w, r) ==
    IF w.state.tag = "LiveViewActive"
    THEN Wrapped(w, r, SetState(SetState(ApplySettings(w, "stop_live_view_settings"),
                                         St("LiveViewStopped")),
                                St("Ready")))
    ELSE w

\* the device call of a slot had result r: a GPhoto2Error is kept in the trace
Counted(w, r) ==
    IF r.kind = "gp"
    THEN [w EXCEPT !.envCount = @ + 1,
                   !.trace = Append(@, [tag |-> "GPhoto2Error", msg |-> r.msg,
                                        ptp |-> r.ptp])]
    ELSE w

\* an autofocus without the finally block
TriggerAutofocusNoCleanup(w, r1, r2) ==
    SetState(SetState(w, St("FocusStarted")), FocusFinished(r1.kind = "ok"))

\* CameraWorker.__trigger_autofocus under __handle_camera_error: r1 is the result
\* of applying start_autofocus_settings, r2 of applying stop_autofocus_settings
TriggerAutofocus(w, r1, r2) ==
    LET w0 == SetState(w, St("FocusStarted"))
        w1 == ExtractGp2ErrorFromLog(Counted(w0, r1), r1)
        caught == r1.kind = "gp" /\ w1.last_ptp_error = "OutOfFocus"
        w2 == CASE r1.kind = "ok" ->
                     SetState(ApplySettings(w1, "start_autofocus_settings"),
                              FocusFinished(TRUE))
                [] caught -> SetState(w1, FocusFinished(FALSE))
                [] OTHER -> w1
        pending == IF r1.kind = "ok" \/ caught THEN NoExc ELSE r1
        \* finally
        w3 == SetState(ApplySettings(w2, "stop_autofocus_settings"),
                       St("LiveViewActive"))
    IN CASE r2.kind = "gp" -> HandleCameraError(Counted(w2, r2), r2)
         [] r2.kind = "py" -> [w2 EXCEPT !.raising = r2]
         [] pending.kind = "gp" -> HandleCameraError(w3, pending)
         [] pending.kind = "py" -> [w3 EXCEPT !.raising = pending]
         [] OTHER -> w3

\* ---------------------------------------------------- pure computations
\* a count that goes down with every shot
NumCapturedDown(fc, expect_files) == 0 - (fc \div expect_files)

\* captureImages / empty_event_queue: int(filesCounter / expect_files)
NumCaptured(fc, expect_files) == fc \div expect_files

\* empty_event_queue: the number put for ${num}, read after the increment
FileNum(fc) == fc + 1

\* empty_event_queue: the condition under which a new file is taken
AcceptsFile(w) ==
    w.state.tag = "CaptureInProgress" /\ ~w.shouldCancel /\ ~w.interrupted

\* captureImages: remaining
Remaining(req, fc) == req.num_images * req.expect_files - fc

\* captureImages: burst
Min(a, b) == IF a < b THEN a ELSE b

\* one frame for every trigger
BurstSingle(req, remaining) == 1

\* a burst that ignores what is left to capture
BurstWhole(req, remaining) == req.max_burst
Burst(req, remaining) == Min(req.max_burst, remaining \div req.expect_files)

\* an outer loop that does not look at the interruption request
LoopCondUninterruptible(w, remaining) == remaining > 0 /\ ~w.shouldCancel

\* captureImages: the conditions of the outer and of the inner loop
LoopCond(w, remaining) == remaining > 0 /\ ~w.shouldCancel /\ ~w.interrupted
InnerCond(w) == ~w.captureComplete /\ ~w.shouldCancel /\ ~w.interrupted

\* ---------------------------------------------------- the environment
UserCommands ==
    {Cmd("cancel"), Cmd("disconnect_camera"), Cmd("reconnect_camera"),
     Cmd("live_view_on"), Cmd("live_view_off")}
    \cup {CaptureCmd(r) : r \in UserRequests(uiManual)}

\* RTICaptureMainWindow.closeEvent: camera_thread.requestInterruption() and
\* camera_thread.exit()
RequestInterruption ==
    /\ run = "run"
    /\ ~interrupted
    /\ envCount < MaxEnv
    /\ Commit([Cur EXCEPT !.interrupted = TRUE, !.exitRequested = TRUE,
                           !.envCount = @ + 1])

\* ---------------------------------------------------- the worker thread
Running == run = "run" /\ raising = NoExc

\* where a running function calls QApplication.processEvents()
AtProcessEvents(f) ==
    \/ f.h = "drain" /\ f.pc = "pe"
    \/ f.h = "capture" /\ f.pc = "inner_pe"
    \/ f.h = "connect" /\ f.pc = "loop_pe"

\* the worker thread runs slots: in its event loop, or in processEvents
CanRunSlot ==
    /\ Running
    /\ IF stack = <<>> THEN ~exitRequested ELSE AtProcessEvents(Top(Cur))

\* CameraWorker.initialize; main.py answers initialized with find_camera
Initialize ==
    /\ run = "init"
    /\ Commit([SetState(Cur, St("Waiting")) EXCEPT
                   !.run = "run", !.cmdQueue = <<Cmd("find_camera")>>])

\* a slot that runs to its end without processing events
Atomic(w, c, r) ==
    CASE c.kind = "cancel" -> Cancel(w)
      [] c.kind = "disconnect_camera" -> DisconnectCamera(w, FALSE)
      [] c.kind = "reconnect_camera" -> DisconnectCamera(w, TRUE)
      [] c.kind = "live_view_on" -> StartLiveView(w, r)
      [] c.kind = "live_view_off" -> StopLiveView(w, r)

\* what the write scope of __set_single_config can do: as any device call, or
\* the GPhoto2Error of get_child_by_name / set_value for a name that the device
\* does not have or a value that it refuses
SetSingleResults(w) ==
    DevResults(w) \cup (IF w.camera THEN {GpErr("BadParameters", "none")} ELSE {})

\* CameraWorker.__set_single_config up to empty_event_queue(), under
\* __handle_camera_error
SetSingleConfig(w, r) ==
    CASE r.kind = "ok" ->
           Call(Call(w, Frame("set_single", "emit")), Frame("drain", "wait"))
      [] r.kind = "gp" ->
           HandleCameraError(
               [w EXCEPT !.trace = Append(@, [tag |-> "GPhoto2Error",
                                               msg |-> r.msg, ptp |-> r.ptp]),
                         !.envCount = IF r.msg \in Messages THEN @ + 1 ELSE @], r)
      [] OTHER -> Fail(w, r)

\* the slot of command c is called: the trace of the step begins with it
SlotCalled(w, c) ==
    [w EXCEPT !.trace = Append(@, [tag |-> "slot", kind |-> c.kind])]

RunSlot(w0, c) ==
    LET w == SlotCalled(w0, c)
    IN CASE c.kind = "find_camera" ->
              Commit(Call(w, Frame("find", "start")))
         [] c.kind = "connect_camera" ->
              \* __connect_camera up to camera.init()
              Commit(Call([SetState(w, St("Connecting")) EXCEPT
                               !.profile = c.profile, !.camera = TRUE,
                               !.last_ptp_error = "none"],
                          Frame("connect", "init")))
         [] c.kind = "capture_images" ->
              Commit(Call([w EXCEPT !.ops = Append(@, NewOp(c.req))],
                          [Frame("capture", "start") EXCEPT
                               !.req = c.req, !.op = Len(w.ops) + 1]))
         [] c.kind = "set_single_config" ->
              \E r \in SetSingleResults(w) :
                 LET n == SetSingleConfig(w, r)
                 IN Commit(IF n.raising # NoExc THEN Crash(n) ELSE n)
         [] c.kind = "trigger_autofocus" ->
              \E r1 \in FocusResults(w) :
                 \E r2 \in DevResults(Counted(w, r1)) :
                    LET n == TriggerAutofocus(w, r1, r2)
                    IN Commit(IF n.raising # NoExc THEN Crash(n) ELSE n)
         [] OTHER ->
              \E r \in DevResults(w) :
                 LET n == Atomic(w, c, r)
                 IN Commit(IF n.raising # NoExc THEN Crash(n) ELSE n)

\* the event loop, or processEvents, calls the slot of the next queued command
Dispatch ==
    /\ CanRunSlot
    /\ cmdQueue # <<>>
    /\ RunSlot([Cur EXCEPT !.cmdQueue = Tail(@)], Head(cmdQueue))

\* a command signal of the user interface: it is queued for the worker thread
\* and run by the next event processing of that thread, where it arrives here
UiEmit(c) ==
    /\ CanRunSlot
    /\ cmdQueue = <<>>
    /\ envCount < MaxEnv
    /\ c.kind = "capture_images" => Len(ops) < MaxOps
    /\ RunSlot([Cur EXCEPT !.envCount = @ + 1], c)

\* processEvents returns when no command is queued
ProcessEventsDone ==
    /\ Running
    /\ stack # <<>>
    /\ AtProcessEvents(Top(Cur))
    /\ cmdQueue = <<>>
    /\ LET f == Top(Cur)
       IN CASE f.h = "drain" -> Commit(Goto(Cur, "dispatch"))
            [] f.h = "capture" -> Commit(Goto(Cur, "inner"))
            [] f.h = "connect" ->
                 IF f.exc = NoExc THEN Commit(Goto(Cur, "loop"))
                 ELSE Commit([Goto(Cur, "unwind") EXCEPT !.raising = f.exc])

At(h, pc) == Running /\ stack # <<>> /\ Top(Cur).h = h /\ Top(Cur).pc = pc

\* CameraWorker.__find_camera
FindCamera ==
    \/ /\ At("find", "start")
       /\ Commit(Goto(SetState(Cur, St("Waiting")), "poll"))
    \/ /\ At("find", "poll")
       /\ IF interrupted
          THEN \* camera_list[0] of an empty list
               Commit(Fail(Cur, PyErr))
          ELSE \E found \in BOOLEAN :
                  IF found THEN Commit(Ret(SetState(Cur, St("Found"))))
                  ELSE UNCHANGED vars

\* CameraWorker.__set_single_config after empty_event_queue():
\* __emit_current_config() when the profile does not poll the config
EmitCurrentConfig ==
    /\ At("set_single", "emit")
    /\ IF PollConfigIsNone(profile)
       THEN \E r \in DevResults(Cur) :
               LET n == Wrapped(Cur, r, Cur)
               IN Commit(IF n.raising # NoExc THEN Crash(n) ELSE Ret(n))
       ELSE Commit(Ret(Cur))

\* CameraWorker.__connect_camera: init, first drain, initial settings, config
ConnectCamera ==
    \/ /\ At("connect", "init")
       /\ \E r \in DevResults(Cur) :
             IF r.kind = "ok"
             THEN Commit(Call(Goto(Cur, "settings"), Frame("drain", "wait")))
             ELSE Commit(Fail(Cur, r))
    \/ /\ At("connect", "settings")
       /\ \E r \in DevResults(Cur) :
             IF r.kind = "ok"
             THEN Commit(Goto(SetState([ApplySettings(Cur, "initial_settings")
                                           EXCEPT !.camera_name = "name"],
                                       St("Ready")), "loop"))
             ELSE Commit(Fail(Cur, r))

\* CameraWorker.__connect_camera: one turn of the supervision loop
ConnectLoop ==
    /\ At("connect", "loop")
    /\ IF ~camera THEN Commit(Ret(Cur))
       ELSE IF interrupted
       THEN Commit(Ret([DisconnectCamera(Cur, TRUE) EXCEPT !.exitRequested = TRUE]))
       ELSE IF state.tag = "LiveViewActive"
       THEN Commit(Call(Goto(Cur, "loop_pe"), Frame("preview", "start")))
       ELSE Commit(Call(Goto(Cur, "loop_pe"), Frame("drain", "wait")))

\* CameraWorker.__live_view_capture_preview
LiveViewCapturePreview ==
    \/ /\ At("preview", "start")
       /\ \E r \in DevResults(Cur) :
             CASE r.kind = "ok" ->
                    Commit(Call(Goto(Cur, "emit"), Frame("drain", "wait")))
               [] r.kind = "gp" ->
                    \E r2 \in DevResults([Cur EXCEPT !.envCount = @ + 1]) :
                       Commit(Ret(StopLiveView([Cur EXCEPT !.envCount = @ + 1], r2)))
               [] OTHER -> Commit(Fail(Cur, r))
    \/ /\ At("preview", "emit")
       /\ Commit(Ret(Cur))

\* the event wait_for_event returns: the next event the device holds, else an
\* event the device raises just now, else GP_EVENT_TIMEOUT
WaitResults(w) ==
    IF w.devQueue # <<>> THEN {Head(w.devQueue)}
    ELSE {"Timeout"} \cup
         (IF ~w.exactDevice /\ w.envCount < MaxEnv THEN DeviceEvents ELSE {})

\* CameraWorker.empty_event_queue: wait_for_event
EmptyEventQueueWait ==
    /\ At("drain", "wait")
    /\ \E r \in DevResults(Cur) :
          IF r.kind # "ok" THEN Commit(Fail(Cur, r))
          ELSE \E ev \in WaitResults(Cur) :
                  IF ev = "Timeout" THEN Commit(Ret(Cur))
                  ELSE Commit(WithTop(
                          [Cur EXCEPT !.devQueue = IF @ # <<>> THEN Tail(@) ELSE @,
                                      !.envCount = IF devQueue = <<>> THEN @ + 1 ELSE @],
                          [Top(Cur) EXCEPT !.pc = "pe", !.ev = ev,
                                           !.inProgress = state.tag = "CaptureInProgress"]))

\* the events the device answers a trigger with: one burst of frames, each of
\* expect_files files, then capture-complete
Repeat(x, n) == [i \in 1..n |-> x]
TriggerAnswer(w, req) ==
    Repeat("FileAdded",
           (IF w.profile.use_burst THEN w.burstnumber ELSE 1) * req.expect_files)
    \o <<"CaptureComplete">>

\* camera.trigger_capture()
TriggerCapture(w, f) ==
    [w EXCEPT !.ops[f.op].triggers = @ + 1,
              !.devQueue = IF w.exactDevice THEN @ \o TriggerAnswer(w, f.req) ELSE @]

\* CameraWorker.empty_event_queue: on to the next wait_for_event
NextEvent(w) ==
    WithTop(w, [Top(w) EXCEPT !.pc = "wait", !.ev = "none", !.inProgress = FALSE])

\* a file that is not taken, but counted
DiscardFileCounted(w) == Ret([w EXCEPT !.filesCounter = @ + 1])

\* CameraWorker.empty_event_queue: a file that is not taken ends the drain
\* (break), it is neither saved nor deleted
DiscardFile(w) == Ret(w)

\* a file that is left on the device
FileDeleteSkipped(w, op) == w

\* empty_event_queue: camera.file_delete(data.folder, data.name)
FileDelete(w, op) == [w EXCEPT !.ops[op].deleted = @ + 1]

\* CameraWorker.empty_event_queue: the branch of a new file
\* r1: result of camera.file_get, r2: result of camera.file_delete
FileAdded(w, r1, r2) ==
    IF AcceptsFile(w)
    THEN LET op == w.state.op
             req == w.ops[op].req
             fc == w.filesCounter + 1
             w1 == [w EXCEPT !.filesCounter = fc, !.ops[op].accepted = @ + 1]
             w2 == [w1 EXCEPT !.ops[op].saved = Append(@, FileNum(fc))]
             w3 == IF fc % req.expect_files = 0
                   THEN SetState(w2, CaptureInProgress(op, NumCaptured(fc, req.expect_files)))
                   ELSE w2
         IN IF r1.kind # "ok" THEN Fail(w1, r1)
            ELSE IF r2.kind # "ok" THEN Fail(w3, r2)
            ELSE NextEvent(FileDelete(w3, op))
    ELSE DiscardFile(w)

EmptyEventQueueDispatch ==
    /\ At("drain", "dispatch")
    /\ LET ev == Top(Cur).ev
       IN CASE ev = "FileAdded" ->
                 \E r1 \in DevResults(Cur) :
                    \E r2 \in (IF r1.kind = "ok" THEN DevResults(Cur) ELSE {Ok}) :
                       Commit(FileAdded(Cur, r1, r2))
            [] ev = "CaptureComplete" ->
                 Commit(NextEvent([Cur EXCEPT !.captureComplete = TRUE]))
            [] OTHER -> Commit(NextEvent(Cur))

\* captureImages: up to the drain before the capture
CaptureStart ==
    /\ At("capture", "start")
    /\ \E r \in DevResults(Cur) :
          LET w == StopLiveView(Cur, r)
          IN IF w.raising # NoExc THEN Commit(w)
             ELSE Commit(Call(Goto(w, "reset"), Frame("drain", "wait")))

\* captureImages: counters, CaptureInProgress(0), capture settings
CaptureBegin ==
    /\ At("capture", "reset")
    /\ LET f == Top(Cur)
           w == SetState([Cur EXCEPT !.filesCounter = 0, !.captureComplete = FALSE],
                         CaptureInProgress(f.op, 0))
       IN \E r \in DevResults(w) :
             IF r.kind # "ok" THEN Commit(Fail(w, r))
             ELSE Commit(WithTop(ApplySettings(w, "start_capture_settings"),
                                 [f EXCEPT !.pc = "head",
                                           !.remaining = Remaining(f.req, 0)]))

\* a capture that triggers the device whatever the request says
ManualTriggerIgnored(req) == FALSE

\* captureImages: if not capture_req.manual_trigger
ManualTrigger(req) == req.manual_trigger

\* captureImages: the head of the loop, burst count and trigger
CaptureLoopHead ==
    /\ At("capture", "head")
    /\ LET f == Top(Cur)
           device == profile.use_burst /\ ~f.req.manual_trigger
           b == IF profile.use_burst THEN Burst(f.req, f.remaining) ELSE f.burst
           w1 == [Cur EXCEPT !.captureComplete = FALSE,
                             !.burstnumber = IF device THEN b ELSE @]
           w2 == IF ManualTrigger(f.req) THEN w1 ELSE TriggerCapture(w1, f)
       IN IF ~LoopCond(Cur, f.remaining) THEN Commit(Goto(Cur, "finish"))
          ELSE IF ManualTrigger(f.req)
          THEN Commit(WithTop(w2, [f EXCEPT !.pc = "inner", !.burst = b]))
          ELSE \E r \in DevResults(Cur) :
                  IF r.kind # "ok" THEN Commit(Fail(Cur, r))
                  ELSE Commit(WithTop(w2, [f EXCEPT !.pc = "inner", !.burst = b]))

\* captureImages: the inner loop around the drain
CaptureInner ==
    /\ At("capture", "inner")
    /\ IF InnerCond(Cur)
       THEN Commit(Call(Goto(Cur, "inner_pe"), Frame("drain", "wait")))
       ELSE Commit(Goto(Cur, "after"))

\* captureImages: remaining and the burst count after the inner loop
CaptureAfter ==
    /\ At("capture", "after")
    /\ LET f == Top(Cur)
           g == [f EXCEPT !.pc = "head", !.remaining = Remaining(f.req, filesCounter)]
       IN IF profile.use_burst /\ ~f.req.manual_trigger
          THEN \E r \in DevResults(Cur) :
                  IF r.kind # "ok" THEN Commit(Fail(Cur, r))
                  ELSE Commit(WithTop([Cur EXCEPT !.burstnumber = f.burst], g))
          ELSE Commit(WithTop(Cur, g))

\* captureImages: CaptureFinished or CaptureCanceled
CaptureFinish ==
    /\ At("capture", "finish")
    /\ LET f == Top(Cur)
           w == Cur
       IN IF ~shouldCancel
          THEN Commit(Goto(SetState(w, CaptureFinished(f.op,
                              NumCaptured(filesCounter, f.req.expect_files))), "finally"))
          ELSE Commit(Goto(SetState(w, CaptureCanceled(f.op)), "finally"))

\* captureImages returns: an exception kept over the finally block goes on
CaptureReturn(w) ==
    LET f == Top(w)
        w1 == [w EXCEPT !.ops[f.op] = Retired(@)]
    IN IF f.exc = NoExc THEN Ret(w1) ELSE Crash(w1)

\* captureImages: the finally block
CaptureCleanup ==
    \/ /\ At("capture", "finally")
       /\ LET w == [Cur EXCEPT !.shouldCancel = FALSE]
          IN IF ~camera THEN Commit(CaptureReturn(w))
             ELSE \E r \in DevResults(w) :
                     IF r.kind = "ok"
                     THEN Commit(Call(Goto(ApplySettings(w, "stop_capture_settings"),
                                           "fin_ready"),
                                      Frame("drain", "wait")))
                     ELSE Commit(CaptureReturn(
                              SetState([w EXCEPT !.envCount = @ + 1], ConnectionError(r.msg))))
    \/ /\ At("capture", "fin_ready")
       /\ Commit(CaptureReturn(SetState(Cur, St("Ready"))))

\* an exception reaches the innermost running function
Propagate ==
    /\ run = "run"
    /\ raising # NoExc
    /\ IF stack = <<>> THEN Commit(Crash(Cur))
       ELSE LET f == Top(Cur)
                w == [Cur EXCEPT !.raising = NoExc]
            IN CASE f.h = "drain" -> Commit(Ret(Cur))
                 [] f.h = "find" -> Commit(Crash(Cur))
                 [] f.h = "set_single" ->
                      IF raising.kind = "gp"
                      THEN Commit(Ret(HandleCameraError(w, raising)))
                      ELSE Commit(Crash(Cur))
                 [] f.h = "preview" ->
                      \* except GPhoto2Error: __stop_live_view(); others go on
                      IF raising.kind = "gp"
                      THEN \E r \in DevResults(w) : Commit(Ret(StopLiveView(w, r)))
                      ELSE Commit(Ret(Cur))
                 [] f.h = "connect" ->
                      IF f.pc = "loop_pe"
                      THEN \* finally: processEvents, the exception is kept
                           Commit(WithTop(w, [f EXCEPT !.exc = raising]))
                      ELSE IF raising.kind = "gp"
                      THEN Commit(Ret(HandleCameraError(w, raising)))
                      ELSE Commit(Crash(Cur))
                 [] f.h = "capture" ->
                      IF f.pc \in {"reset", "head", "inner_pe", "after"}
                      THEN IF raising.kind = "gp"
                           THEN Commit(Goto(SetState(w, CaptureError(f.op, raising.msg)),
                                            "finally"))
                           ELSE Commit(WithTop(w, [f EXCEPT !.pc = "finally",
                                                            !.exc = raising]))
                      ELSE IF f.pc = "fin_ready" /\ raising.kind = "gp"
                      THEN Commit(CaptureReturn(SetState(w, ConnectionError(raising.msg))))
                      ELSE Commit(Crash(Cur))

Worker ==
    \/ Initialize
    \/ Dispatch
    \/ ProcessEventsDone
    \/ FindCamera
    \/ ConnectCamera
    \/ ConnectLoop
    \/ LiveViewCapturePreview
    \/ EmptyEventQueueWait
    \/ EmptyEventQueueDispatch
    \/ CaptureStart
    \/ CaptureBegin
    \/ CaptureLoopHead
    \/ CaptureInner
    \/ CaptureAfter
    \/ CaptureFinish
    \/ CaptureCleanup
    \/ Propagate

Next ==
    \/ Worker
    \/ \E c \in UserCommands : UiEmit(c)
    \/ RequestInterruption

Spec == Init /\ [][Next]_vars

\* ---------------------------------------------------- the burst capture
\* the Nikon profile (use_burst) on a device that answers every trigger with
\* burst * expect_files FileAdded events and one CaptureComplete, raises no other
\* event and fails no call; the user interface sends one capture command
InitBurst ==
    /\ InitWorker
    /\ uiProfile = Nikon
    /\ uiManual = FALSE
    /\ exactDevice = TRUE
    /\ deviceConfig = NoDevice
    /\ InitBtController

BurstRequests == {r \in Requests : ~r.manual_trigger}

\* RTICaptureMainWindow.capture_image: commands.capture_images.emit
BurstCapture(r) ==
    /\ CanRunSlot
    /\ cmdQueue = <<>>
    /\ ops = <<>>
    /\ RunSlot(Cur, CaptureCmd(r))

NextBurst ==
    \/ Initialize
    \/ Dispatch
    \/ ProcessEventsDone
    \/ FindCamera
    \/ ConnectCamera
    \/ ConnectLoop
    \/ EmptyEventQueueWait
    \/ EmptyEventQueueDispatch
    \/ CaptureStart
    \/ CaptureBegin
    \/ CaptureLoopHead
    \/ CaptureInner
    \/ CaptureAfter
    \/ CaptureFinish
    \/ CaptureCleanup
    \/ \E r \in BurstRequests : BurstCapture(r)

\* the worker thread keeps running, and the camera is found at last
SpecBurst == InitBurst /\ [][NextBurst]_vars /\ WF_vars(NextBurst)

\* ---------------------------------------------------- the manual trigger
\* the user interface asks for captures that are triggered by hand
InitManual ==
    /\ InitWorker
    /\ uiProfile \in Profiles
    /\ uiManual = TRUE
    /\ exactDevice = FALSE
    /\ deviceConfig = NoDevice
    /\ InitBtController

SpecManual == InitManual /\ [][Next]_vars

\* ---------------------------------------------------- live view and autofocus
\* the commands of the live view controls of the user interface
FocusCommands ==
    {Cmd("live_view_on"), Cmd("live_view_off"), Cmd("trigger_autofocus")}

NextFocus ==
    \/ Initialize
    \/ Dispatch
    \/ ProcessEventsDone
    \/ FindCamera
    \/ ConnectCamera
    \/ ConnectLoop
    \/ LiveViewCapturePreview
    \/ EmptyEventQueueWait
    \/ EmptyEventQueueDispatch
    \/ Propagate
    \/ \E c \in FocusCommands : UiEmit(c)

SpecFocus == Init /\ [][NextFocus]_vars

\* ---------------------------------------------------- the shutdown
\* the worker with one capture command, any device, and the closing of the
\* window; the worker thread keeps running
CaptureWorker ==
    \/ Initialize
    \/ Dispatch
    \/ ProcessEventsDone
    \/ FindCamera
    \/ ConnectCamera
    \/ ConnectLoop
    \/ EmptyEventQueueWait
    \/ EmptyEventQueueDispatch
    \/ CaptureStart
    \/ CaptureBegin
    \/ CaptureLoopHead
    \/ CaptureInner
    \/ CaptureAfter
    \/ CaptureFinish
    \/ CaptureCleanup
    \/ Propagate

\* RTICaptureMainWindow.capture_image: commands.capture_images.emit
ShutdownCapture(r) ==
    /\ ops = <<>>
    /\ UiEmit(CaptureCmd(r))

NextShutdown ==
    \/ CaptureWorker
    \/ \E r \in UserRequests(uiManual) : ShutdownCapture(r)
    \/ RequestInterruption

SpecShutdown == Init /\ [][NextShutdown]_vars /\ WF_vars(CaptureWorker)

\* ---------------------------------------------------- the session
\* the worker without captures, and the session controls of the user
\* interface: the connect and disconnect buttons, the reconnect after a
\* change of profile, the live view controls; the worker thread keeps running
SessionWorker ==
    \/ Initialize
    \/ Dispatch
    \/ ProcessEventsDone
    \/ FindCamera
    \/ ConnectCamera
    \/ ConnectLoop
    \/ LiveViewCapturePreview
    \/ EmptyEventQueueWait
    \/ EmptyEventQueueDispatch
    \/ Propagate

SessionCommands ==
    {Cmd("disconnect_camera"), Cmd("reconnect_camera"), Cmd("live_view_on"),
     Cmd("live_view_off"), ConnectCmd(uiProfile)}

NextSession ==
    \/ SessionWorker
    \/ \E c \in SessionCommands : UiEmit(c)
    \/ RequestInterruption

SpecSession == Init /\ [][NextSession]_vars /\ WF_vars(SessionWorker)

\* ---------------------------------------------------- the config controls
\* the worker with one capture command and the config controls of the capture
\* view (config_hookup_select), any device
ConfigWorker ==
    \/ CaptureWorker
    \/ EmitCurrentConfig

NextSetConfig ==
    \/ ConfigWorker
    \/ \E r \in UserRequests(uiManual) : ShutdownCapture(r)
    \/ UiEmit(Cmd("set_single_config"))

SpecSetConfig == Init /\ [][NextSetConfig]_vars

\* ---------------------------------------------------- the LED controller
\* src/bt_controller_controller.py: the requests of the user interface to the
\* dome's LED controller and the notifications of the controller
MaxRequests == 2      \* requests scheduled in one run
MaxResponses == 3     \* notifications of the controller in one run
MaxLinkResponses == 1 \* the same in a run in which the link can break

\* BtControllerCommand (LED_ON, LED_OFF) and BtControllerResponse (OK,
\* ERR_INVALID_CMD) by value; param = None; the notifications: OK with the
\* code of a command, OK alone, an error code, a byte that is no response code
BtCommands == {1, 2}
BT_RESP_OK == 1
BtResponses == {1, 16}
NoParam == -1
Notifications == {<<1, 1>>, <<1, 2>>, <<1>>, <<16, 1>>, <<2>>}

\* one _send_command task: where it is, the responses it took from the queue,
\* what it returned or raised, and the signals of its request
BtTask(command) ==
    [command |-> command, pc |-> "write", got |-> <<>>, result |-> "none",
     signals |-> <<>>]

\* a waiter that takes every OK for its own
MatchesAnyOk(command, resp) == resp.response = BT_RESP_OK

\* _send_command: the test that ends the loop of send_and_wait_for_response
Matches(command, resp) ==
    resp.response = BT_RESP_OK /\ resp.param = command

\* a done_callback that a cancelled future passes by
DoneCallbackUncaught(t, result) ==
    [t EXCEPT !.pc = "done", !.result = result,
              !.signals = IF result = "CancelledError" THEN @
                          ELSE Append(@, IF result = "True" THEN "success" ELSE "error")]

\* schedule_command, done_callback: the signals for the result of the future;
\* the CancelledError of a cancelled future is an Exception as the others
DoneCallback(t, result) ==
    [t EXCEPT !.pc = "done", !.result = result,
              !.signals = Append(@, IF result = "True" THEN "success" ELSE "error")]

btOther == <<workerVars, deviceConfig, scope, btLink>>

\* BtControllerController.schedule_command: a request of the user interface
ScheduleCommand ==
    \E command \in BtCommands :
        /\ Len(btTasks) < MaxRequests
        /\ btTasks' = Append(btTasks, BtTask(command))
        /\ UNCHANGED <<btQueue, btCount, btOther>>

\* _send_command: write_gatt_char, which may raise BleakError, and does
\* without a link
WriteGattChar ==
    \E i \in DOMAIN btTasks, ok \in BOOLEAN :
        /\ btTasks[i].pc = "write"
        /\ ok => btLink = "connected"
        /\ btTasks' = [btTasks EXCEPT ![i] =
                          IF ok THEN [@ EXCEPT !.pc = "get"]
                          ELSE DoneCallback(@, "BleakError")]
        /\ UNCHANGED <<btQueue, btCount, btOther>>

\* _send_command: one turn of the loop on self._queue.get()
QueueGet ==
    \E i \in DOMAIN btTasks :
        /\ btTasks[i].pc = "get"
        /\ btQueue # <<>>
        /\ LET t == [btTasks[i] EXCEPT !.got = Append(@, Head(btQueue))]
           IN btTasks' = [btTasks EXCEPT ![i] =
                             IF Matches(t.command, Head(btQueue))
                             THEN DoneCallback(t, "True") ELSE t]
        /\ btQueue' = Tail(btQueue)
        /\ UNCHANGED <<btCount, btOther>>

\* _send_command: asyncio.wait_for gives up and TimeoutError is raised
CommandTimeout ==
    \E i \in DOMAIN btTasks :
        /\ btTasks[i].pc \in {"write", "get"}
        /\ btTasks' = [btTasks EXCEPT ![i] = DoneCallback(@, "TimeoutError")]
        /\ UNCHANGED <<btQueue, btCount, btOther>>

\* BtControllerController._response_callback: a byte that is no response code
\* is logged and dropped
ResponseCallback ==
    \E data \in Notifications :
        /\ btLink = "connected"
        /\ btCount < MaxResponses
        /\ btCount' = btCount + 1
        /\ btQueue' = IF data[1] \notin BtResponses THEN btQueue
                      ELSE Append(btQueue,
                                  [response |-> data[1],
                                   param |-> IF Len(data) = 2 THEN data[2]
                                             ELSE NoParam])
        /\ UNCHANGED <<btTasks, btOther>>

NextBt ==
    \/ ScheduleCommand
    \/ WriteGattChar
    \/ QueueGet
    \/ CommandTimeout
    \/ ResponseCallback

InitBt ==
    /\ InitWorker
    /\ uiProfile = Nikon
    /\ uiManual = FALSE
    /\ exactDevice = FALSE
    /\ deviceConfig = NoDevice
    /\ InitBtController

SpecBt == InitBt /\ [][NextBt]_vars

\* BtControllerController._connect: the loop ends when connect and start_notify
\* have succeeded; a BleakError is logged and the loop sleeps and tries again
Connect ==
    /\ btLink = "connecting"
    /\ btLink' = "connected"
    /\ UNCHANGED <<btTasks, btQueue, btCount, workerVars, deviceConfig, scope>>

\* the tasks that asyncio.all_tasks() holds: those that wait for a response,
\* and those of the requests whose coroutine the loop has started
InFlight == {i \in DOMAIN btTasks : btTasks[i].pc \in {"write", "get"}}
Started == {T \in SUBSET InFlight : \A i \in InFlight : btTasks[i].pc = "get" => i \in T}

\* BtControllerController._disconnect_callback: cancels every task of the
\* loop and starts _connect anew; the queue is left as it is
DisconnectCallback ==
    /\ btLink = "connected"
    /\ btLink' = "connecting"
    /\ \E T \in Started :
          btTasks' = [i \in DOMAIN btTasks |->
                        IF i \in T THEN DoneCallback(btTasks[i], "CancelledError")
                        ELSE btTasks[i]]
    /\ UNCHANGED <<btQueue, btCount, workerVars, deviceConfig, scope>>

\* the LED controller with its link: the controller starts without a link,
\* the link can break at any time; wait_for ends every task after 5 s
InitBtLink ==
    /\ InitWorker
    /\ uiProfile = Nikon
    /\ uiManual = FALSE
    /\ exactDevice = FALSE
    /\ deviceConfig = NoDevice
    /\ btQueue = <<>>
    /\ btTasks = <<>>
    /\ btCount = 0
    /\ btLink = "connecting"

NextBtLink ==
    \/ ScheduleCommand
    \/ WriteGattChar
    \/ QueueGet
    \/ CommandTimeout
    \/ (btCount < MaxLinkResponses /\ ResponseCallback)
    \/ Connect
    \/ DisconnectCallback

SpecBtLink == InitBtLink /\ [][NextBtLink]_vars /\ WF_vars(CommandTimeout)

\* ---------------------------------------------------- the config scopes
\* a setter that lets the GPhoto2Error of the widget out
TrySetConfigRaising(d, cfg, name, value) ==
    IF name \in DOMAIN cfg.children /\ name \notin d.refused
    THEN [cfg |-> [cfg EXCEPT !.children[name] = value], exc |-> NoExc]
    ELSE [cfg |-> cfg, exc |-> GpErr("BadParameters", "none")]

\* CameraWorker.__try_set_config: get_child_by_name raises for a name that the
\* tree does not have, set_value for a widget that refuses the value; both
\* errors are logged, nothing leaves the function
TrySetConfig(d, cfg, name, value) ==
    IF name \in DOMAIN cfg.children /\ name \notin d.refused
    THEN [cfg |-> [cfg EXCEPT !.children[name] = value], exc |-> NoExc]
    ELSE [cfg |-> [cfg EXCEPT !.errors = @ \cup {name}], exc |-> NoExc]

\* the items of a dict of settings, in the order of ConfigOrder
RECURSIVE Items(_, _)
Items(settings, i) ==
    IF i > Len(ConfigOrder) THEN <<>>
    ELSE (IF ConfigOrder[i] \in DOMAIN settings
          THEN <<ConfigOrder[i]>> ELSE <<>>) \o Items(settings, i + 1)

\* CameraWorker.__apply_settings, the body of the scope: the loop over the
\* items ends with the first exception
RECURSIVE SetItems(_, _, _, _)
SetItems(d, cfg, settings, keys) ==
    IF keys = <<>> THEN [cfg |-> cfg, exc |-> NoExc]
    ELSE LET b == TrySetConfig(d, cfg, Head(keys), settings[Head(keys)])
         IN IF b.exc # NoExc THEN b
            ELSE SetItems(d, b.cfg, settings, Tail(keys))

\* CameraWorker.__set_single_config, the body of the scope: the errors of
\* get_child_by_name and set_value are not caught
SetSingleBody(d, cfg, name, value) ==
    IF name \in DOMAIN cfg.children /\ name \notin d.refused
    THEN [cfg |-> [cfg EXCEPT !.children[name] = value], exc |-> NoExc]
    ELSE [cfg |-> cfg, exc |-> GpErr("BadParameters", "none")]

\* what camera.get_config() can do, and camera.set_config(cfg): with cfg = None
\* the binding or the library refuses the call
GetConfigResults == {Ok} \cup {GpErr(m, "none") : m \in Messages}
SetConfigResults(cfg) ==
    IF cfg.none THEN {PyErr} \cup {GpErr(m, "none") : m \in Messages}
    ELSE {Ok} \cup {GpErr(m, "none") : m \in Messages}

\* CameraWorker.__open_config around a body that ended as b (when get_config
\* failed the body did not run: b is the exception of get_config with
\* cfg = None).  In write mode the finally clause calls camera.set_config(cfg),
\* with result r2: its exception replaces the one of the body; a set_config
\* that fails is taken to change nothing on the device
OpenConfig(sc, d, r1, r2, b) ==
    IF sc.mode = "write"
    THEN [deviceConfig |-> IF r2.kind = "ok"
                           THEN [d EXCEPT !.config = b.cfg.children] ELSE d,
          scope |-> [sc EXCEPT !.before = d.config, !.got = r1,
                               !.written = <<b.cfg>>, !.body = b.exc,
                               !.exc = IF r2.kind = "ok" THEN b.exc ELSE r2]]
    ELSE [deviceConfig |-> d,
          scope |-> [sc EXCEPT !.before = d.config, !.got = r1,
                               !.body = b.exc, !.exc = b.exc]]

\* the tree that the body of a scope gets, and the end of a body that never ran
Yielded(d, r1) == IF r1.kind = "ok" THEN Widget(d.config) ELSE NoWidget
NotRun(r1) == [cfg |-> NoWidget, exc |-> r1]

EndScope(res) ==
    /\ deviceConfig' = res.deviceConfig
    /\ scope' = res.scope
    /\ UNCHANGED <<workerVars, btQueue, btTasks, btCount, btLink>>

\* CameraWorker.__apply_settings
ApplySettingsScope ==
    \E settings \in Settings, r1 \in GetConfigResults :
        LET cfg == Yielded(deviceConfig, r1)
            b == IF r1.kind = "ok"
                 THEN SetItems(deviceConfig, cfg, settings, Items(settings, 1))
                 ELSE NotRun(r1)
        IN \E r2 \in SetConfigResults(b.cfg) :
               EndScope(OpenConfig([Scope("apply_settings", "write")
                                       EXCEPT !.settings = settings],
                                   deviceConfig, r1, r2, b))

\* CameraWorker.__set_single_config, lines 369-373
SetSingleConfigScope ==
    \E name \in ConfigNames, value \in ConfigValues, r1 \in GetConfigResults :
        LET cfg == Yielded(deviceConfig, r1)
            b == IF r1.kind = "ok"
                 THEN SetSingleBody(deviceConfig, cfg, name, value)
                 ELSE NotRun(r1)
        IN \E r2 \in SetConfigResults(b.cfg) :
               EndScope(OpenConfig([Scope("set_single_config", "write")
                                       EXCEPT !.settings = [n \in {name} |-> value]],
                                   deviceConfig, r1, r2, b))

\* CameraWorker.__get_config: the body hands the tree to the dialog
GetConfigScope ==
    \E r1 \in GetConfigResults :
        LET b == IF r1.kind = "ok"
                 THEN [cfg |-> Yielded(deviceConfig, r1), exc |-> NoExc]
                 ELSE NotRun(r1)
        IN EndScope(OpenConfig(Scope("get_config", "read"), deviceConfig, r1, Ok, b))

\* any device: a tree with some of the widgets, some of which refuse a value
Devices ==
    {[config |-> c, refused |-> R] :
        c \in Settings, R \in SUBSET ConfigNames}

InitConfig ==
    /\ InitWorker
    /\ uiProfile = Nikon
    /\ uiManual = FALSE
    /\ exactDevice = FALSE
    /\ deviceConfig \in {d \in Devices : d.refused \subseteq DOMAIN d.config}
    /\ InitBtController

NextConfig ==
    \/ ApplySettingsScope
    \/ SetSingleConfigScope
    \/ GetConfigScope

SpecConfig == InitConfig /\ [][NextConfig]_vars

\* ---------------------------------------------------- properties
LiveOps == {i \in DOMAIN ops : ops[i].live}

\* C1: the num_captured of CaptureFinished is floor(filesCounter / expect_files),
\* and filesCounter is the number of files that were accepted for this capture
\* operation while the state was CaptureInProgress
C1_FinishedCountsAcceptedFiles ==
    (state.tag = "CaptureFinished" /\ state.op \in LiveOps) =>
        /\ state.num = filesCounter \div ops[state.op].req.expect_files
        /\ filesCounter = ops[state.op].accepted

\* C2: within one capture operation the num_captured of CaptureInProgress never
\* decreases, and the first CaptureInProgress of an operation carries 0
C2_ProgressMonotone ==
    [][\A i \in LiveOps :
          ops'[i].live =>
             /\ ops'[i].last >= ops[i].last
             /\ (ops[i].last = -1 /\ ops'[i].last # -1) => ops'[i].last = 0]_vars

\* C2 happens: an operation has just emitted its first CaptureInProgress, with 0,
\* after an earlier operation counted files, and an operation has counted up
C2_Witness ==
    /\ \E i \in LiveOps : \E j \in LiveOps :
          j < i /\ ops[j].last >= 1 /\ ops[i].last = 0 /\ state = CaptureInProgress(i, 0)
    /\ filesCounter = 0

\* C3: no CaptureInProgress carries more shots than the request asked for
C3_ProgressWithinRequest ==
    (state.tag = "CaptureInProgress" /\ state.op \in LiveOps) =>
        state.num <= ops[state.op].req.num_images
\* the drain is about to handle a FileAdded event after its processEvents
FileAddedAtHand ==
    Running /\ stack # <<>> /\ Top(Cur).h = "drain" /\ Top(Cur).pc = "dispatch"
            /\ Top(Cur).ev = "FileAdded"

\* C4: a FileAdded event that arrived while the state was not CaptureInProgress
\* is discarded: filesCounter, the state and the saved and deleted files of every
\* operation stay as they are, nothing is emitted
C4_StrayFileDiscarded ==
    [][(FileAddedAtHand /\ ~Top(Cur).inProgress) =>
          /\ filesCounter' = filesCounter
          /\ state' = state
          /\ emitted' = <<>>
          /\ ops' = ops]_vars

\* C4 happens: a FileAdded event that arrived in Ready is at hand
C4_Witness ==
    FileAddedAtHand /\ ~Top(Cur).inProgress /\ state.tag = "Ready" /\ ~shouldCancel

\* C5: once a cancel command was processed during a capture operation, no
\* FileAdded event is accepted for that operation any more
C5_NoFileAfterCancel ==
    [][\A i \in LiveOps :
          (ops[i].cancelled /\ ops'[i].live) => ops'[i].accepted = ops[i].accepted]_vars

\* C5 happens: an operation accepted a file and was cancelled, and a FileAdded
\* event that arrived after the cancel is at hand
C5_Witness ==
    /\ FileAddedAtHand /\ ~Top(Cur).inProgress
    /\ \E i \in LiveOps : ops[i].cancelled /\ ops[i].accepted > 0

\* C6: a capture operation during which a cancel command was processed never
\* emits CaptureFinished
C6_CancelledNeverFinished ==
    \A i \in DOMAIN ops : ops[i].cancelled => ops[i].outcome # "finished"

\* the capture operation i returns with this step (the process goes on)
Returns(i) == ops[i].live /\ ~ops'[i].live /\ run' = "run"

\* C7: a device error in the try block of captureImages yields CaptureError with
\* the request and the message of the error; the operation then ends with Ready,
\* or with ConnectionError when a device call of the cleanup failed, and emits
\* neither CaptureFinished nor CaptureCanceled
C7_CaptureError ==
    [][/\ ("CaptureError" \in {emitted'[k] : k \in DOMAIN emitted'}) =>
             /\ raising.kind = "gp" /\ Top(Cur).h = "capture"
             /\ emitted' = <<"CaptureError">>
             /\ state'.tag = "CaptureError"
             /\ state'.op = Top(Cur).op /\ state'.err = raising.msg
       /\ (Running' /\ raising.kind = "gp" /\ stack # <<>> /\ Top(Cur).h = "capture"
           /\ Top(Cur).pc \in {"reset", "head", "inner_pe", "after"}) =>
             emitted' = <<"CaptureError">>
       /\ \A i \in DOMAIN ops :
             ops[i].outcome = "error" =>
                /\ ops'[i].outcome = "error"
                /\ Returns(i) =>
                     emitted' = IF raising.kind = "gp" \/ envCount' > envCount
                                THEN <<"ConnectionError">> ELSE <<"Ready">>]_vars

\* C7 happens: an operation that emitted CaptureError has returned with Ready
C7_Witness ==
    /\ Len(ops) = 1 /\ ~ops[1].live /\ ops[1].outcome = "error"
    /\ emitted = <<"Ready">> /\ state.tag = "Ready"

\* C8: when a capture operation returns, the cancellation flag is false, and
\* with the camera still there the last state is Ready or ConnectionError
C8_CleanupOnReturn ==
    [][\A i \in DOMAIN ops :
          Returns(i) =>
             /\ ~shouldCancel'
             /\ camera' => state'.tag \in {"Ready", "ConnectionError"}]_vars
\* C9: under the burst profile and with the device that answers every trigger
\* with exactly one burst, a capture that has started ends with CaptureFinished
\* whose num_captured is the num_images of the request
C9_BurstCaptureFinishes ==
    (ops # <<>> /\ ops[1].live /\ ops[1].outcome = "none") ~>
        (/\ ops # <<>> /\ ops[1].live
         /\ state = CaptureFinished(1, ops[1].req.num_images))

\* C9 happens: a capture of two raw and jpeg shots in bursts of one has finished
C9_Witness ==
    /\ exactDevice /\ profile = Nikon
    /\ ops # <<>> /\ ops[1].live
    /\ ops[1].req = Request(2, "jpeg_and_raw", 1, FALSE)
    /\ ops[1].triggers = 2
    /\ state = CaptureFinished(1, 2)

\* the numbers of the files of n shots of e files, one number for each shot
ShotNumbers(n, e) == [k \in 1..(n * e) |-> ((k - 1) \div e) + 1]

\* C10: when a capture of N shots has finished, its files were saved under the
\* numbers 1..N, the files of one shot under one number, and every saved file
\* was deleted from the device
C10_FilesNumberedByShot ==
    \A i \in LiveOps :
       (state = CaptureFinished(i, ops[i].req.num_images)) =>
          /\ ops[i].saved = ShotNumbers(ops[i].req.num_images, ops[i].req.expect_files)
          /\ ops[i].deleted = Len(ops[i].saved)

\* C11: a capture operation with manual_trigger never calls trigger_capture;
\* filesCounter goes up only by one, and only where the drain handles a FileAdded
\* event of the device, and unless the thread is interrupted such an operation
\* ends with CaptureFinished only when filesCounter has reached the files asked for
C11_ManualNeverTriggers ==
    [][/\ \A i \in DOMAIN ops' :
             (ops'[i].live /\ ops'[i].req.manual_trigger) => ops'[i].triggers = 0
       /\ filesCounter' > filesCounter =>
             FileAddedAtHand /\ filesCounter' = filesCounter + 1
       /\ \A i \in LiveOps :
             (/\ ops[i].req.manual_trigger /\ ops'[i].live
              /\ ops[i].outcome = "none" /\ ops'[i].outcome = "finished"
              /\ ~interrupted) => Remaining(ops[i].req, filesCounter) <= 0]_vars

\* C11 happens: a capture with manual_trigger has finished with all its files,
\* without a trigger
C11_Witness ==
    /\ state.tag = "CaptureFinished" /\ state.op \in LiveOps
    /\ ops[state.op].req.manual_trigger
    /\ ops[state.op].triggers = 0
    /\ ops[state.op].accepted = ops[state.op].req.num_images * ops[state.op].req.expect_files
    /\ filesCounter = ops[state.op].accepted

\* the tags of what the step at hand does, states and settings
Done == {trace'[k].tag : k \in DOMAIN trace'}

\* C12: FocusStarted is emitted only by a step that starts in LiveViewActive
C12_FocusOnlyFromLiveViewActive ==
    [][("FocusStarted" \in {emitted'[k] : k \in DOMAIN emitted'}) =>
          state.tag = "LiveViewActive"]_vars

\* a capture operation between its CaptureInProgress(0) and the end of its cleanup
CaptureActive(f) == f.h = "capture" /\ f.pc \notin {"start", "reset"}

\* C13: while a capture operation is between its CaptureInProgress(0) and the end
\* of its cleanup, no function of another command (capture, connect, find camera)
\* runs above it on the worker's stack: only its own drain does
C13_OneOperationAtATime ==
    \A k \in DOMAIN stack :
       CaptureActive(stack[k]) =>
          \A j \in DOMAIN stack : j > k => stack[j].h = "drain" /\ j = k + 1

\* __connect_camera, before its supervision loop, has met a GPhoto2Error: raised
\* by camera.init(), by the first drain, by the initial settings or by the
\* reading of the config
ConnectFails ==
    /\ run = "run" /\ raising.kind = "gp" /\ stack # <<>>
    /\ Top(Cur).h = "connect" /\ Top(Cur).pc \in {"init", "settings"}

\* C14: a device error in the connect sequence gives ConnectionError with that
\* error, then Disconnecting, then Disconnected with auto_reconnect, the camera
\* handle is cleared and __connect_camera returns, in the worker's next step; the
\* step in which the device call of the sequence fails emits no Ready
C14_ConnectErrorDisconnects ==
    [][/\ (ConnectFails /\ interrupted' = interrupted) =>
             /\ emitted' = <<"ConnectionError", "Disconnecting", "Disconnected">>
             /\ trace'[1] = ConnectionError(raising.msg)
             /\ state' = Disconnected(camera_name, TRUE)
             /\ ~camera'
             /\ stack' = SubSeq(stack, 1, Len(stack) - 1)
             /\ raising' = NoExc /\ run' = "run"
       /\ ConnectFails' => "Ready" \notin {emitted'[k] : k \in DOMAIN emitted'}]_vars

\* C14 happens: the only thing the environment did was to fail a call of the
\* connect sequence, and the worker has disconnected
C14_Witness ==
    /\ envCount = 1 /\ stack = <<>> /\ run = "run" /\ ~camera
    /\ emitted = <<"ConnectionError", "Disconnecting", "Disconnected">>
    /\ state = Disconnected("none", TRUE)

\* the step at hand is a disconnect of a worker that is disconnected already,
\* asked for with the auto_reconnect of the disconnect before it
DisconnectsAgain ==
    /\ state.tag = "Disconnected" /\ ~camera
    /\ emitted' = <<"Disconnecting", "Disconnected">>
    /\ state'.auto = state.auto

\* C15: a disconnect of a worker that is disconnected already raises no error and
\* ends in the same Disconnected state as the disconnect before it
C15_DisconnectIdempotent ==
    [][DisconnectsAgain => (state' = state /\ ~camera' /\ run' = "run")]_vars

\* the supervision loop of __connect_camera is at its head with the camera and
\* the interruption request
InterruptedAtLoopHead == At("connect", "loop") /\ camera /\ interrupted

\* C16: with the interruption requested, the supervision loop at its next head
\* emits Disconnecting and Disconnected, clears the handle, asks the thread to
\* exit and returns; no capture operation triggers the device again; and a worker
\* that holds a camera at the request comes to Disconnected, mid-capture too
C16_InterruptionHonoured ==
    /\ [][InterruptedAtLoopHead =>
             /\ emitted' = <<"Disconnecting", "Disconnected">>
             /\ ~camera' /\ exitRequested'
             /\ stack' = SubSeq(stack, 1, Len(stack) - 1)]_vars
    /\ [][interrupted =>
             \A i \in DOMAIN ops' :
                ops'[i].triggers <= (IF i \in DOMAIN ops THEN ops[i].triggers ELSE 0)]_vars
    /\ (interrupted /\ camera) ~> (state.tag = "Disconnected")

\* C16 happens: the interruption was requested during a capture operation, which
\* ended before its first file, and the worker has disconnected from the loop head
C16_Witness ==
    /\ interrupted /\ ~camera /\ state.tag = "Disconnected"
    /\ emitted = <<"Disconnecting", "Disconnected">>
    /\ filesCounter = 0
    /\ \E i \in DOMAIN ops : ~ops[i].live /\ ops[i].outcome = "finished"

\* C17: in an autofocus attempt, when the start settings are applied the attempt
\* emits FocusFinished(True); when they fail with the out-of-focus error it emits
\* FocusFinished(False), and without a further error the session stays connected;
\* when they fail with another device error it emits no FocusFinished(False),
\* but ConnectionError, and disconnects
C17_FocusOutcome ==
    [][("FocusStarted" \in Done /\ Len(trace') >= 3) =>
          LET first == trace'[3]
              later == {trace'[k] : k \in 4..Len(trace')}
          IN /\ first.tag = "apply_settings" => trace'[4] = FocusFinished(TRUE)
             /\ (first.tag = "GPhoto2Error" /\ first.ptp = "OutOfFocus") =>
                   /\ trace'[4] = FocusFinished(FALSE)
                   /\ ("GPhoto2Error" \notin {t.tag : t \in later}) =>
                         camera' = camera /\ "ConnectionError" \notin Done
             /\ (first.tag = "GPhoto2Error" /\ first.ptp # "OutOfFocus") =>
                   /\ FocusFinished(FALSE) \notin later
                   /\ ConnectionError(first.msg) \in later
                   /\ state'.tag = "Disconnected" /\ ~camera']_vars

\* the step at hand is an autofocus attempt of a worker that holds a camera
FocusAttempt == camera /\ "FocusStarted" \in Done

\* the step at hand applies stop_autofocus_settings and then sets LiveViewActive,
\* both after FocusStarted and FocusFinished
FocusCleanedUp ==
    \E k \in DOMAIN trace' :
       /\ trace'[k] = [tag |-> "apply_settings", settings |-> "stop_autofocus_settings"]
       /\ k + 1 \in DOMAIN trace' /\ trace'[k + 1] = St("LiveViewActive")
       /\ \A j \in DOMAIN trace' :
             trace'[j].tag \in {"FocusStarted", "FocusFinished"} => j < k

\* the device fails the writing of stop_autofocus_settings in the step at hand
\* (the trace begins with the slot and FocusStarted; the error of the try block,
\* if any, is its third entry)
FocusCleanupFails ==
    \E k \in 4..Len(trace') : trace'[k].tag = "GPhoto2Error"

\* C18 as stated: every autofocus attempt applies stop_autofocus_settings and
\* then sets LiveViewActive, after its FocusStarted and FocusFinished
C18_FocusAlwaysCleansUp == [][FocusAttempt => FocusCleanedUp]_vars

\* C18 amended: every autofocus attempt, whether its start settings were
\* applied, failed out of focus or failed otherwise, applies
\* stop_autofocus_settings and then sets LiveViewActive, after its FocusStarted
\* and FocusFinished, unless the device fails the writing of the stop settings;
\* then it emits ConnectionError and disconnects without LiveViewActive
C18_FocusCleanup ==
    [][FocusAttempt =>
          IF FocusCleanupFails
          THEN /\ "LiveViewActive" \notin Done
               /\ "ConnectionError" \in Done /\ state'.tag = "Disconnected"
          ELSE FocusCleanedUp]_vars

\* C18 happens: an autofocus attempt failed with a device error that is
\* escalated, and has applied the stop settings and set LiveViewActive before
\* the disconnect
C18_Witness ==
    /\ Len(trace) = 8
    /\ trace[2] = St("FocusStarted") /\ trace[3].tag = "GPhoto2Error"
    /\ trace[4] = [tag |-> "apply_settings", settings |-> "stop_autofocus_settings"]
    /\ trace[5] = St("LiveViewActive")
    /\ trace[6].tag = "ConnectionError" /\ state.tag = "Disconnected"

\* the step at hand calls the slot of the command kind
SlotAtHand(kind) == trace' # <<>> /\ trace'[1] = [tag |-> "slot", kind |-> kind]

\* the entries of the trace of the step at hand after the slot
AfterSlot == SubSeq(trace', 2, Len(trace'))

\* the step at hand ends in the except branch of __handle_camera_error
Escalated ==
    /\ Len(trace') = 4 /\ trace'[2].tag = "ConnectionError"
    /\ trace'[3] = St("Disconnecting") /\ trace'[4].tag = "Disconnected"

\* C19: with a camera, the enable command applies start_live_view_settings and
\* then emits LiveViewStarted and LiveViewActive; the disable command in
\* LiveViewActive applies stop_live_view_settings and then emits LiveViewStopped
\* and Ready (each unless the device fails the writing, which is escalated and
\* emits none of them); the disable command in another state does nothing
C19_LiveViewProtocol ==
    [][/\ (SlotAtHand("live_view_on") /\ camera) =>
             \/ AfterSlot = <<[tag |-> "apply_settings",
                               settings |-> "start_live_view_settings"],
                              St("LiveViewStarted"), St("LiveViewActive")>>
             \/ Escalated
       /\ (SlotAtHand("live_view_off") /\ state.tag = "LiveViewActive") =>
             \/ AfterSlot = <<[tag |-> "apply_settings",
                               settings |-> "stop_live_view_settings"],
                              St("LiveViewStopped"), St("Ready")>>
             \/ Escalated
       /\ (SlotAtHand("live_view_off") /\ state.tag # "LiveViewActive") =>
             /\ AfterSlot = <<>>
             /\ state' = state /\ camera' = camera /\ run' = run]_vars

\* C19 happens: live view was started, and the disable command has stopped it
C19_Witness ==
    /\ trace = <<[tag |-> "slot", kind |-> "live_view_off"],
                 [tag |-> "apply_settings", settings |-> "stop_live_view_settings"],
                 St("LiveViewStopped"), St("Ready")>>
    /\ state = St("Ready") /\ camera

\* captureImages has been called in LiveViewActive and is at its first statement
CaptureInLiveView == At("capture", "start") /\ state.tag = "LiveViewActive" /\ camera

\* __live_view_capture_preview is about to take a preview frame while a capture
\* operation is between its CaptureInProgress(0) and the end of its cleanup
PreviewDuringCapture ==
    \E k \in DOMAIN stack :
       /\ stack[k].h = "preview" /\ stack[k].pc = "start"
       /\ \E j \in DOMAIN stack : CaptureActive(stack[j])

\* C20: a capture called in LiveViewActive first applies stop_live_view_settings
\* and emits LiveViewStopped and Ready (or escalates the device's failure of the
\* writing) in its next step, before the step that emits its CaptureInProgress(0);
\* and no preview frame is taken during a capture operation
C20_CaptureStopsLiveView ==
    [][/\ (CaptureInLiveView /\ interrupted' = interrupted) =>
             /\ \/ trace' = <<[tag |-> "apply_settings",
                               settings |-> "stop_live_view_settings"],
                              St("LiveViewStopped"), St("Ready")>>
                \/ /\ Len(trace') = 3 /\ trace'[1].tag = "ConnectionError"
                   /\ state'.tag = "Disconnected"
             /\ ops[Top(Cur).op].last = -1 /\ ops'[Top(Cur).op].last = -1
       /\ ~PreviewDuringCapture]_vars

\* the step at hand returns from empty_event_queue without an exception
DrainReturns ==
    /\ Running /\ stack # <<>> /\ Top(Cur).h = "drain"
    /\ stack' = SubSeq(stack, 1, Len(stack) - 1)
    /\ raising' = NoExc /\ run' = "run"

\* C21: empty_event_queue returns only from wait_for_event, with its Timeout:
\* never from the handling of an event that it polled
C21_DrainEndsWithTimeout ==
    [][DrainReturns => (Top(Cur).pc = "wait" /\ Top(Cur).ev = "none")]_vars

\* the names of the last scope's settings that the device has and takes
Taken == {n \in DOMAIN scope.settings :
             n \in DOMAIN scope.before /\ n \notin deviceConfig.refused}

\* C22: __apply_settings is best-effort per property: when the tree could be
\* read, every property of the bundle that the tree has and that takes its
\* value is set, every other one is logged and changes nothing, no exception
\* leaves the body, and the tree is handed to set_config once; an exception
\* leaves the scope only when that write itself fails
C22_SettingsBestEffort ==
    (scope.kind = "apply_settings" /\ scope.got.kind = "ok") =>
        /\ Len(scope.written) = 1
        /\ ~scope.written[1].none
        /\ scope.written[1].children =
               [n \in DOMAIN scope.before |->
                   IF n \in Taken THEN scope.settings[n] ELSE scope.before[n]]
        /\ scope.written[1].errors = DOMAIN scope.settings \ Taken
        /\ scope.body = NoExc
        /\ scope.exc = NoExc => deviceConfig.config = scope.written[1].children

\* a bundle whose first property the device does not have and whose second the
\* device refuses, and whose last property changed the device
C22_Witness ==
    /\ scope.kind = "apply_settings" /\ scope.exc = NoExc
    /\ DOMAIN scope.settings = ConfigNames
    /\ "capturetarget" \notin DOMAIN scope.before
    /\ "burstnumber" \in deviceConfig.refused
    /\ "viewfinder" \in Taken
    /\ scope.before["viewfinder"] # scope.settings["viewfinder"]
    /\ deviceConfig.config["viewfinder"] = scope.settings["viewfinder"]
    /\ deviceConfig.config["burstnumber"] = scope.before["burstnumber"]

\* C23: a write-mode scope hands its tree to set_config only when its body
\* ended without an exception: when the body raises, nothing is written to
\* the device and the exception of the body is the one that leaves the scope
C23_WriteBackOnSuccessOnly ==
    (scope.mode = "write" /\ scope.got.kind = "ok" /\ scope.body # NoExc) =>
        (scope.written = <<>> /\ scope.exc = scope.body)

\* C24: a FileAdded event that is handled after the cancel command, for a
\* capture operation that has triggered the camera and has not yet emitted
\* CaptureCanceled, is still counted for that operation
C24_InFlightFilesAccepted ==
    [][(/\ FileAddedAtHand
        /\ ~interrupted /\ interrupted' = interrupted
        /\ \E i \in LiveOps : /\ ops[i].cancelled /\ ops[i].triggers > 0
                              /\ ops[i].outcome = "none")
       => filesCounter' = filesCounter + 1]_vars

\* the Disconnected states that the step at hand emits
DisconnectedEmitted ==
    {trace'[k] : k \in {j \in 1..Len(trace') : trace'[j].tag = "Disconnected"}}

\* the step at hand runs the slot of the disconnect command
DisconnectSlot ==
    /\ trace' # <<>>
    /\ trace'[1].tag = "slot"
    /\ trace'[1].kind = "disconnect_camera"

\* the commands that lead to Waiting or start a session
Searching ==
    {k \in 1..Len(cmdQueue) : cmdQueue[k].kind \in {"find_camera", "connect_camera"}}

\* C25: Disconnected carries the reconnect policy: the disconnect command
\* emits it with auto_reconnect false, every other disconnect (the reconnect
\* command, a device error, the shutdown) with auto_reconnect true; with true
\* the user interface answers with find_camera, and Waiting is entered again
\* unless the application is closed or has aborted; with false no search is
\* pending as long as the state is Disconnected
C25_ReconnectPolicy ==
    /\ [][\A s \in DisconnectedEmitted : s.auto = ~DisconnectSlot]_vars
    /\ [][(\E s \in DisconnectedEmitted : s.auto) =>
              (cmdQueue' # <<>> /\ cmdQueue'[Len(cmdQueue')].kind = "find_camera")]_vars
    /\ []((state.tag = "Disconnected" /\ ~state.auto) => Searching = {})
    /\ (state.tag = "Disconnected" /\ state.auto)
           ~> (state.tag = "Waiting" \/ run = "crashed" \/ interrupted)

\* a search that runs inside the processEvents of a session: its find_camera
\* was the answer to the Disconnected, with auto_reconnect, of that session
C25_Witness ==
    /\ state.tag = "Waiting"
    /\ Running /\ Len(stack) > 1 /\ Top(Cur).h = "find"
    /\ ~camera /\ ~interrupted

\* C26: __find_camera that meets the interruption request before a device was
\* found ends without Found and without an error: no exception is raised and
\* the process goes on to its shutdown
C26_FindEndsOnInterruption ==
    [][(At("find", "poll") /\ interrupted) =>
          /\ raising' = NoExc
          /\ run' = "run"
          /\ emitted' = <<>>]_vars

\* the step at hand runs the slot of set_single_config, and get_child_by_name
\* or set_value raises in it
SetConfigRejected ==
    /\ Len(trace') >= 2
    /\ trace'[1] = [tag |-> "slot", kind |-> "set_single_config"]
    /\ trace'[2] = [tag |-> "GPhoto2Error", msg |-> "BadParameters", ptp |-> "none"]

\* C27: a set-config command that the device rejects while a capture is
\* running leaves the session connected: no ConnectionError, no Disconnected,
\* the state of the capture stays
C27_RejectedSetConfigKeepsSession ==
    [][(state.tag = "CaptureInProgress" /\ SetConfigRejected) =>
          (camera' = camera /\ state' = state)]_vars

\* the responses that a task took from the queue and went on
Ignored(t) ==
    IF t.result = "True" THEN SubSeq(t.got, 1, Len(t.got) - 1) ELSE t.got

\* C28: a request of the LED controller emits success only when its task took
\* a response OK with the code of its command as parameter from the queue;
\* every response it took before does not match and was ignored; a task that
\* timed out took no matching response and emits error, never success
C28_RequestResponse ==
    \A i \in DOMAIN btTasks :
        LET t == btTasks[i]
        IN /\ \A k \in 1..Len(Ignored(t)) : ~Matches(t.command, Ignored(t)[k])
           /\ t.signals = <<"success">> <=> t.result = "True"
           /\ t.result = "True" =>
                  (t.got # <<>> /\ t.got[Len(t.got)] =
                       [response |-> BT_RESP_OK, param |-> t.command])
           /\ t.result \in {"TimeoutError", "BleakError"} => t.signals = <<"error">>
           /\ t.result = "none" => t.signals = <<>>
           /\ Len(t.signals) <= 1

\* one request succeeded after it had ignored a response, another one timed
\* out after it had ignored one
C28_Witness ==
    \E i, j \in DOMAIN btTasks :
        /\ btTasks[i].result = "True" /\ Len(btTasks[i].got) = 2
        /\ btTasks[j].result = "TimeoutError" /\ Len(btTasks[j].got) = 1

\* the step at hand triggers the camera for the capture operation on top
Triggers ==
    /\ At("capture", "head")
    /\ ops'[Top(Cur).op].triggers = ops[Top(Cur).op].triggers + 1

\* C29: under a burst profile the burst-count property of the device holds, at
\* every trigger, min(max_burst, floor(remaining / expect_files)) with
\* remaining = num_images * expect_files - filesCounter
C29_BurstBeforeTrigger ==
    [][(Triggers /\ profile.use_burst) =>
          LET req == Top(Cur).req
              remaining == req.num_images * req.expect_files - filesCounter
          IN burstnumber' = Min(req.max_burst, remaining \div req.expect_files)]_vars

\* a trigger whose burst is what remains, less than max_burst: the camera was
\* triggered for one shot in raw and jpeg with max_burst 2
C29_Witness ==
    /\ At("capture", "inner") /\ profile.use_burst
    /\ ops[Top(Cur).op].triggers = 1
    /\ Top(Cur).req.expect_files = 2
    /\ Top(Cur).req.num_images < Top(Cur).req.max_burst
    /\ burstnumber = Top(Cur).req.num_images

\* the step at hand is the end of one turn of the capture loop: remaining is
\* computed anew after the drain, and the loop goes to its head
TurnEnds ==
    /\ At("capture", "after")
    /\ stack' # <<>> /\ Top(Cur').pc = "head" /\ raising' = NoExc

\* C30: under a burst profile the burst-count property is rewritten at the end
\* of every turn of the capture loop, to the burst of the remaining that was
\* just computed anew
C30_BurstRewrittenAfterDrain ==
    [][(TurnEnds /\ profile.use_burst /\ ~Top(Cur).req.manual_trigger) =>
          LET req == Top(Cur).req
              remaining == req.num_images * req.expect_files - filesCounter
          IN /\ Top(Cur').remaining = remaining
             /\ burstnumber' = Min(req.max_burst, remaining \div req.expect_files)]_vars

\* the places of a state in what the step at hand emits
EmittedAt(tag) == {k \in 1..Len(emitted') : emitted'[k] = tag}

\* C31: a step that emits ConnectionError goes on to the forced disconnect:
\* Disconnecting and Disconnected follow it and the handle is cleared
C31_ConnectionErrorDisconnects ==
    [][\A k \in EmittedAt("ConnectionError") :
          /\ k + 2 <= Len(emitted')
          /\ emitted'[k + 1] = "Disconnecting"
          /\ emitted'[k + 2] = "Disconnected"
          /\ ~camera']_vars

\* the step at hand runs the slot of the cancel command while no capture
\* operation is running: none was started, or each one has emitted its end
CancelOutsideCapture ==
    /\ trace' # <<>>
    /\ trace'[1] = [tag |-> "slot", kind |-> "cancel"]
    /\ \A i \in LiveOps : ops[i].outcome # "none"

\* C32: a cancel command outside a capture has no effect: the state stays and
\* the cancellation flag is not set
C32_CancelOutsideCaptureIgnored ==
    [][CancelOutsideCapture => (state' = state /\ ~shouldCancel')]_vars

\* C33: CaptureFinished is emitted only when all the files of the request
\* were received: filesCounter >= num_images * expect_files
C33_FinishedOnlyWhenComplete ==
    [][(At("capture", "finish") /\ EmittedAt("CaptureFinished") # {}) =>
          filesCounter >= Top(Cur).req.num_images * Top(Cur).req.expect_files]_vars

\* a function of the worker is running after a disconnect has cleared the
\* camera handle (a search for a camera has no handle to use)
RunningOnClosedSession ==
    /\ Running /\ stack # <<>>
    /\ ~camera
    /\ Top(Cur).h \in {"drain", "preview", "capture", "connect", "set_single"}

\* C34: the code that is still running when the handle was cleared makes no
\* device call on it: no call on self.camera = None raises AttributeError
C34_NoCallOnClosedSession ==
    [][RunningOnClosedSession => raising' # PyErr]_vars

\* the step at hand starts a capture: captureImages resets filesCounter and
\* emits CaptureInProgress with num_captured 0
CaptureStarts ==
    /\ At("capture", "reset")
    /\ EmittedAt("CaptureInProgress") # {}

\* C35: a capture starts only in Ready (where the stop of the live view leaves
\* the worker, too), and only then filesCounter is reset
C35_CaptureOnlyFromReady ==
    [][CaptureStarts => state.tag = "Ready"]_vars

\* C36: under a burst profile the burst count written before a trigger is at
\* least 1 and at most max_burst, whatever the number of files received
C36_BurstInRange ==
    [][(Triggers /\ profile.use_burst) =>
          (1 <= burstnumber' /\ burstnumber' <= Top(Cur).req.max_burst)]_vars

\* C37: FocusFinished(False) is emitted only when the device error raised by
\* the autofocus attempt at hand is the out-of-focus error; the record that an
\* earlier attempt left does not downgrade another device error
C37_DowngradeOnlyOutOfFocus ==
    [][\A k \in DOMAIN trace' :
          ("FocusStarted" \in Done /\ trace'[k] = FocusFinished(FALSE)) =>
             /\ k > 1
             /\ trace'[k - 1].tag = "GPhoto2Error"
             /\ trace'[k - 1].ptp = "OutOfFocus"]_vars

\* the step at hand handles a FileAdded event that the drain accepts
AcceptedFileAtHand ==
    FileAddedAtHand /\ AcceptsFile(Cur) /\ interrupted' = interrupted

\* the operation of the step at hand has downloaded and saved one more file
\* under the number that follows the counter, and has deleted one more
SavedThenDeleted(o, o1) ==
    /\ o1.accepted = o.accepted + 1
    /\ o1.saved = Append(o.saved, FileNum(filesCounter + 1))
    /\ o1.deleted = o.deleted + 1

\* C38 as stated: every accepted FileAdded event is followed by one download
\* and save of the file and then one delete of it from the device; a discarded
\* FileAdded event by neither
C38_AcceptedFileSavedAndDeleted ==
    [][/\ AcceptedFileAtHand => SavedThenDeleted(ops[state.op], ops'[state.op])
       /\ (FileAddedAtHand /\ ~AcceptsFile(Cur)) => ops' = ops]_vars

\* C38, amended: an accepted FileAdded event whose device calls succeed is
\* followed by one download and save and then one delete; when file_get fails
\* the file is counted but neither saved nor deleted, when file_delete fails it
\* is saved but not deleted, and the error leaves the drain; no operation has
\* deleted more files than it saved; a discarded FileAdded event is followed
\* by neither a download nor a delete
C38_FileSavedThenDeleted ==
    /\ [][AcceptedFileAtHand =>
             LET o == ops[state.op]
                 o1 == ops'[state.op]
             IN IF raising' = NoExc THEN SavedThenDeleted(o, o1)
                ELSE /\ o1.accepted = o.accepted + 1
                     /\ o1.deleted = o.deleted
                     /\ o1.saved \in {o.saved, Append(o.saved, FileNum(filesCounter + 1))}]_vars
    /\ [][(FileAddedAtHand /\ ~AcceptsFile(Cur)) => ops' = ops]_vars
    /\ [](\A i \in DOMAIN ops : ops[i].deleted <= Len(ops[i].saved))

\* C38 happens: an operation saved and deleted its first file, and the
\* download of its second file failed with a device error
C38_Witness ==
    /\ raising.kind = "gp"
    /\ \E i \in DOMAIN ops :
          /\ ops[i].accepted = 2
          /\ Len(ops[i].saved) = 1
          /\ ops[i].deleted = 1

\* in the step at hand task j takes the head of the queue and goes on waiting
Drops(j) ==
    /\ btTasks[j].pc = "get" /\ btQueue # <<>>
    /\ btTasks'[j].got = Append(btTasks[j].got, Head(btQueue))
    /\ ~Matches(btTasks[j].command, Head(btQueue))

\* C39: with two commands in flight, a response that is the matching OK of a
\* waiting command is never taken from the queue and dropped by the waiter of
\* the other command
C39_NoResponseStolen ==
    [][\A j \in DOMAIN btTasks :
          Drops(j) =>
             \A i \in DOMAIN btTasks \ {j} :
                btTasks[i].pc = "get" => ~Matches(btTasks[i].command, Head(btQueue))]_vars

\* C40: every scheduled request of the LED controller emits one signal,
\* success or error, in the end, and never a second one, also when the link
\* breaks while the request is in flight
C40_OneSignalPerRequest ==
    /\ \A i \in 1..MaxRequests :
          (Len(btTasks) >= i) ~> (Len(btTasks) >= i /\ Len(btTasks[i].signals) = 1)
    /\ [](\A i \in DOMAIN btTasks :
             /\ btTasks[i].signals \in {<<>>, <<"success">>, <<"error">>}
             /\ btTasks[i].signals = <<>> <=> btTasks[i].pc # "done")
    /\ [][\A i \in DOMAIN btTasks :
             btTasks[i].signals # <<>> => btTasks'[i] = btTasks[i]]_vars

\* C40 happens: the link broke while one request waited for its response and
\* another had not written yet; both were cancelled and emitted error
C40_Witness ==
    /\ btLink = "connecting"
    /\ Len(btTasks) = 2
    /\ btTasks[1].result = "CancelledError" /\ btTasks[1].signals = <<"error">>
    /\ btTasks[1].got # <<>>
    /\ btTasks[2].result = "CancelledError" /\ btTasks[2].signals = <<"error">>
    /\ btTasks[2].got = <<>>

====
